---- MODULE Spec2Model ----
(***************************************************************************)
(* The item service of src/main.py: six HTTP handlers over one JSON file   *)
(* (data.json).  Every handler reads the whole file, works on the decoded   *)
(* list and, for a change, writes the whole list back.                      *)
(*                                                                          *)
(* Field values are tokens (strings): an id is the string the code stores,  *)
(* a price or a quantity is the decimal text of the number.  Null is        *)
(* Python's None / JSON's null.                                             *)
(***************************************************************************)
EXTENDS Integers, Sequences, FiniteSets, TLC

\* ------------------------------------------------------------------ bounds
\* Largest id a POST may assign in the model (the code has no limit).
MaxId == 2
\* Number of requests a run of the concurrent service receives.
MaxRequests == 2

\* ------------------------------------------------------------- item model
Null == "null"

\* Item (main.py 13-18): the five fields of a stored record.
ItemFields == {"id", "name", "description", "price", "quantity"}

\* ItemUpdate (main.py 21-25): the fields a PATCH body may set; it has no id.
UpdateFields == {"name", "description", "price", "quantity"}

\* The fields Item declares without Optional: validation rejects null there.
RequiredFields == {"name", "price", "quantity"}

\* Two request bodies that differ in every field; the second carries an id
\* of its own, which POST and PUT overwrite.
BodyA == [id |-> Null, name |-> "a", description |-> Null, price |-> "1.5", quantity |-> "1"]
BodyB == [id |-> "2", name |-> "b", description |-> "d", price |-> "2.5", quantity |-> "2"]
Bodies == {BodyA, BodyB}

\* A response without an item: the body of a 404, a 204 or a list.
NoItem == [f \in ItemFields |-> Null]

\* An ItemUpdate body: each field holds the value the body set (null
\* included) or Unset when the body did not name it.
Unset == "unset"
PatchOf(S, src) == [f \in UpdateFields |-> IF f \in S THEN src[f] ELSE Unset]
NoUpdate == PatchOf({}, NoItem)

\* The PATCH bodies: every subset of the fields with the values of BodyB,
\* a description set to null, and a name set to null.
PatchBodies ==
    {PatchOf(S, BodyB) : S \in SUBSET UpdateFields}
        \cup {PatchOf({"description"}, BodyA), PatchOf({"name"}, NoItem)}

\* The PATCH bodies of the runs that mix all six requests: the empty body
\* and one field.
FewPatchBodies == {NoUpdate, PatchOf({"quantity"}, BodyB)}

\* str(n) of main.py 67, for the numbers the model reaches.
DecStr == <<"1", "2", "3", "4", "5", "6", "7", "8", "9">>
StrOf(n) == DecStr[n]

\* int(s) of main.py 67: the decimal strings parse (a leading zero is
\* accepted and dropped), anything else raises ValueError.
IsNumeric(s) == s \in {DecStr[n] : n \in 1..Len(DecStr)} \cup {"01"}
IntOf(s) == IF s = "01" THEN 1 ELSE CHOOSE n \in 1..Len(DecStr) : DecStr[n] = s

\* The ids a request path may name.
PathIds == {StrOf(n) : n \in 1..MaxId} \cup {"x"}

Max(S) == CHOOSE m \in S : \A k \in S : k <= m

SeqToSet(s) == {s[i] : i \in 1..Len(s)}

\* -------------------------------------------------------- storage adapter
\* The backing file: absent, a JSON array of objects, JSON that is no array
\* ("scalar"), no bytes at all ("empty": open(..., "w") has truncated it and
\* nothing is written yet), or bytes that are no JSON ("garbage").
MissingFile == [kind |-> "missing", doc |-> <<>>]
JsonFile(doc) == [kind |-> "json", doc |-> doc]
ScalarFile == [kind |-> "scalar", doc |-> <<>>]
EmptyFile == [kind |-> "empty", doc |-> <<>>]
GarbageFile == [kind |-> "garbage", doc |-> <<>>]

\* Item(**obj) of main.py 32: pydantic accepts the object when every
\* required field is there and not null.
ItemValid(obj) == \A f \in RequiredFields : obj[f] # Null

\* item.dict() of main.py 43: the five fields by name.
ItemDict(item) == [f \in ItemFields |-> item[f]]

\* A variant of read_data: JSONDecodeError is not caught.
read_data_decode_raises(f, ioerr) ==
    CASE f.kind = "missing" -> [raised |-> FALSE, data |-> <<>>]
      [] ioerr -> [raised |-> FALSE, data |-> <<>>]
      [] f.kind \in {"empty", "garbage", "scalar"} -> [raised |-> TRUE, data |-> <<>>]
      [] OTHER ->
           IF \A i \in 1..Len(f.doc) : ItemValid(f.doc[i])
           THEN [raised |-> FALSE, data |-> f.doc]
           ELSE [raised |-> TRUE, data |-> <<>>]

\* read_data (main.py 28-37).  ioerr: open or read raises IOError.
\* The result says whether an exception left the function, and the list.
\* JSONDecodeError and IOError are caught; pydantic's ValidationError and the
\* TypeError of iterating a document that is no array are not.
read_data(f, ioerr) ==
    CASE f.kind = "missing" -> [raised |-> FALSE, data |-> <<>>]
      [] ioerr -> [raised |-> FALSE, data |-> <<>>]
      [] f.kind \in {"empty", "garbage"} -> [raised |-> FALSE, data |-> <<>>]
      [] f.kind = "scalar" -> [raised |-> TRUE, data |-> <<>>]
      [] OTHER ->
           IF \A i \in 1..Len(f.doc) : ItemValid(f.doc[i])
           THEN [raised |-> FALSE, data |-> f.doc]
           ELSE [raised |-> TRUE, data |-> <<>>]

\* write_data (main.py 40-45), the write as a whole.  ioerr: open raises
\* IOError, which is caught and printed: the file keeps its content.
write_data(f, data, ioerr) ==
    IF ioerr THEN f
    ELSE JsonFile([i \in 1..Len(data) |-> ItemDict(data[i])])

\* ---------------------------------------------------------------- handlers
\* What a handler does with the list it read: the status it answers, the
\* item of its response (NoItem when the response carries none), the list of
\* its response (GET /items), whether it calls write_data, and the list it
\* hands to write_data.
Answer(status, item, list) ==
    [status |-> status, item |-> item, list |-> list, write |-> FALSE, out |-> <<>>]
AnswerWrite(status, item, out) ==
    [status |-> status, item |-> item, list |-> <<>>, write |-> TRUE, out |-> out]

\* The position of the first item with this id, 0 when there is none
\* (next(...) of main.py 58, the for loops of main.py 76 and 88).
FirstIndex(data, item_id) ==
    IF \E i \in 1..Len(data) : data[i].id = item_id
    THEN CHOOSE i \in 1..Len(data) :
            /\ data[i].id = item_id
            /\ \A j \in 1..(i - 1) : data[j].id # item_id
    ELSE 0

\* A variant of get_items: the list read is saved back.
get_items_saves(data) ==
    [status |-> 200, item |-> NoItem, list |-> data, write |-> TRUE, out |-> data]

\* get_items (main.py 51-52)
get_items(data) == Answer(200, NoItem, data)

\* get_item (main.py 56-61)
get_item(data, item_id) ==
    LET idx == FirstIndex(data, item_id)
    IN  IF idx = 0 THEN Answer(404, NoItem, <<>>) ELSE Answer(200, data[idx], <<>>)

\* A variant of NextId: the number of items plus one.
NextId_count(data) == StrOf(Len(data) + 1)

\* A variant of NextId: max(..., default=1).
NextId_default1(data) ==
    StrOf(Max({IntOf(data[i].id) : i \in 1..Len(data)} \cup {1}) + 1)

\* The id create_item assigns (main.py 67): max of the parsed ids, 0 for an
\* empty list, plus one, as a string.
NextId(data) ==
    StrOf(Max({IntOf(data[i].id) : i \in 1..Len(data)} \cup {0}) + 1)

\* A variant of create_item: an id the body carries is kept.
create_item_keeps_id(data, body) ==
    IF \E i \in 1..Len(data) : ~IsNumeric(data[i].id)
    THEN Answer(500, NoItem, <<>>)
    ELSE LET item == IF body.id # Null THEN body ELSE [body EXCEPT !.id = NextId(data)]
         IN  AnswerWrite(200, item, Append(data, item))

\* A variant of create_item: the new item is put first.
create_item_prepend(data, body) ==
    IF \E i \in 1..Len(data) : ~IsNumeric(data[i].id)
    THEN Answer(500, NoItem, <<>>)
    ELSE LET item == [body EXCEPT !.id = NextId(data)]
         IN  AnswerWrite(200, item, <<item>> \o data)

\* A variant of create_item: the ids that do not parse are skipped.
create_item_skips_bad_ids(data, body) ==
    LET nums == {IntOf(data[i].id) : i \in {j \in 1..Len(data) : IsNumeric(data[j].id)}}
        item == [body EXCEPT !.id = StrOf(Max(nums \cup {0}) + 1)]
    IN  AnswerWrite(200, item, Append(data, item))

\* create_item (main.py 65-70): a stored id that does not parse makes int()
\* raise before anything is written (status 500).
create_item(data, body) ==
    IF \E i \in 1..Len(data) : ~IsNumeric(data[i].id)
    THEN Answer(500, NoItem, <<>>)
    ELSE LET item == [body EXCEPT !.id = NextId(data)]
         IN  AnswerWrite(200, item, Append(data, item))

\* A variant of update_item: the body is appended, not put in place.
update_item_append(data, item_id, body) ==
    LET idx == FirstIndex(data, item_id)
        item == [body EXCEPT !.id = item_id]
    IN  IF idx = 0 THEN Answer(404, NoItem, <<>>)
        ELSE AnswerWrite(200, item, Append(data, item))

\* A variant of update_item without main.py 79: the body keeps its own id.
update_item_keeps_id(data, item_id, body) ==
    LET idx == FirstIndex(data, item_id)
    IN  IF idx = 0 THEN Answer(404, NoItem, <<>>)
        ELSE AnswerWrite(200, body, [data EXCEPT ![idx] = body])

\* update_item (main.py 74-82)
update_item(data, item_id, body) ==
    LET idx == FirstIndex(data, item_id)
        item == [body EXCEPT !.id = item_id]
    IN  IF idx = 0 THEN Answer(404, NoItem, <<>>)
        ELSE AnswerWrite(200, item, [data EXCEPT ![idx] = item])

\* A variant of FieldsSet: exclude_none, which drops a field set to null.
FieldsSet_exclude_none(upd) == {f \in UpdateFields : upd[f] \notin {Unset, Null}}

\* item_update.dict(exclude_unset=True) of main.py 90: the fields the body
\* set, a field set to null included.
FieldsSet(upd) == {f \in UpdateFields : upd[f] # Unset}

\* existing_item.copy(update=...) of main.py 91: the fields given replace the
\* item's, without validation; the others are kept.
CopyUpdate(item, upd) ==
    [f \in ItemFields |-> IF f \in FieldsSet(upd) THEN upd[f] ELSE item[f]]

\* patch_item (main.py 85-95).  The merged item is written as it is; the
\* response goes through response_model=Item (main.py 85), which rejects a
\* required field that the body set to null: a 500 after the write.
patch_item(data, item_id, upd) ==
    LET idx == FirstIndex(data, item_id)
    IN  IF idx = 0 THEN Answer(404, NoItem, <<>>)
        ELSE LET updated_item == CopyUpdate(data[idx], upd)
                 out == [data EXCEPT ![idx] = updated_item]
             IN  IF ItemValid(updated_item)
                 THEN AnswerWrite(200, updated_item, out)
                 ELSE AnswerWrite(500, NoItem, out)

\* A variant of delete_item: only the first item with the id is removed.
delete_item_first(data, item_id) ==
    LET idx == FirstIndex(data, item_id)
    IN  IF idx = 0 THEN Answer(404, NoItem, <<>>)
        ELSE AnswerWrite(204, NoItem,
                         [i \in 1..(Len(data) - 1) |-> IF i < idx THEN data[i] ELSE data[i + 1]])

\* delete_item (main.py 99-105)
delete_item(data, item_id) ==
    LET new_data == SelectSeq(data, LAMBDA item : item.id # item_id)
    IN  IF Len(new_data) = Len(data) THEN Answer(404, NoItem, <<>>)
        ELSE AnswerWrite(204, NoItem, new_data)

\* ------------------------------------------------------------------ state
VARIABLES
    file,       \* the backing file data.json
    before,     \* the backing file as the latest request found it
    last,       \* the latest request served and its response
    prev,       \* the request served before it, when it was a successful
                \* POST, PUT or DELETE (NoRequest otherwise)
    maxPosted,  \* the largest id a POST before the latest request assigned
    run,        \* n when the latest n requests were successful POSTs and
                \* the first of them found the store empty, else 0
    fromEmpty,  \* whether the service started on an empty store
    watch,      \* which history is recorded: "pairs" (prev) or "ids"
                \* (maxPosted, run)
    req,        \* the concurrent service: each request's position, input,
                \* response and the list it is about to write
    wrote       \* the requests that completed a write, in that order

hist == <<before, last, prev, maxPosted, run, fromEmpty, watch>>
conc == <<req, wrote>>
vars == <<file, before, last, prev, maxPosted, run, fromEmpty, watch, req, wrote>>

Request(op, item_id, body, upd, raised, h) ==
    [op |-> op, id |-> item_id, body |-> body, upd |-> upd, raised |-> raised,
     status |-> h.status, item |-> h.item, list |-> h.list]
NoRequest == Request("none", Null, NoItem, NoUpdate, FALSE, Answer(0, NoItem, <<>>))

Item(item_id, body) == [body EXCEPT !.id = item_id]

\* A request of the concurrent service.  pc: "new" (not received), "write"
\* (the handler is about to call write_data), "dump" (write_data has opened
\* the file and not written yet), "done" (answered).  seen: how many times
\* the file had been changed when this request read it, -1 when its read
\* failed and it saw no content.
Requests == 1..MaxRequests
Pending(pc, op, item_id, body, upd, h, seen) ==
    [pc |-> pc, op |-> op, id |-> item_id, body |-> body, upd |-> upd,
     status |-> h.status, item |-> h.item, list |-> h.list, out |-> h.out,
     seen |-> seen]
NewRequest == Pending("new", "none", Null, NoItem, NoUpdate, Answer(0, NoItem, <<>>), 0)

\* The contents the service may find in data.json when it starts: nothing,
\* lists the service wrote, and files edited from outside (two items with
\* one id, ids that are no plain decimal numbers, an object without a name,
\* a document that is no array, bytes that are no JSON).
InitFiles ==
    {MissingFile, ScalarFile, GarbageFile,
     JsonFile(<<>>),
     JsonFile(<<Item("1", BodyA)>>),
     JsonFile(<<Item("1", BodyA), Item("2", BodyB)>>),
     JsonFile(<<Item("1", BodyA), Item("1", BodyB)>>),
     JsonFile(<<Item("x", BodyA)>>),
     JsonFile(<<Item("1", BodyA), Item("x", BodyB)>>),
     JsonFile(<<Item("01", BodyB)>>),
     JsonFile(<<Item("1", [BodyA EXCEPT !.name = Null])>>)}

IsEmptyStore(f) == f.kind = "missing" \/ (f.kind = "json" /\ f.doc = <<>>)

Init ==
    /\ file \in InitFiles
    /\ before = file
    /\ last = NoRequest
    /\ prev = NoRequest
    /\ maxPosted = 0
    /\ run = 0
    /\ fromEmpty = IsEmptyStore(file)
    /\ watch \in {"pairs", "ids"}
    /\ req = [r \in Requests |-> NewRequest]
    /\ wrote = <<>>

\* ------------------------------------------------- requests, one at a time
\* What a handler makes of its read: its own answer h, or a 500 when
\* read_data raised (the exception leaves the handler).
Handle(rd, h) == IF rd.raised THEN Answer(500, NoItem, <<>>) ELSE h

\* A handler run from its read to its response with no other request in
\* between and no I/O failure.
Serve(op, item_id, body, upd, rd, h) ==
    /\ file' = IF h.write THEN write_data(file, h.out, FALSE) ELSE file
    /\ before' = file
    /\ last' = Request(op, item_id, body, upd, rd.raised, h)
    /\ prev' = IF /\ watch = "pairs"
                  /\ last.op \in {"POST", "PUT", "DELETE"}
                  /\ last.status \in {200, 204}
               THEN last ELSE NoRequest
    /\ maxPosted' = IF watch = "ids" /\ last.op = "POST" /\ last.status = 200
                    THEN Max({maxPosted, IntOf(last.item.id)}) ELSE maxPosted
    /\ run' = IF watch = "ids" /\ op = "POST" /\ h.status = 200
              THEN (IF IsEmptyStore(file) THEN 1 ELSE IF run > 0 THEN run + 1 ELSE 0)
              ELSE 0
    /\ UNCHANGED <<fromEmpty, watch, conc>>

GetItems ==
    LET rd == read_data(file, FALSE)
    IN  Serve("GET_ALL", Null, NoItem, NoUpdate, rd, Handle(rd, get_items(rd.data)))

GetItem(item_id) ==
    LET rd == read_data(file, FALSE)
    IN  Serve("GET", item_id, NoItem, NoUpdate, rd, Handle(rd, get_item(rd.data, item_id)))

CreateItem(body) ==
    LET rd == read_data(file, FALSE)
        h == Handle(rd, create_item(rd.data, body))
    IN  /\ h.status = 200 => IntOf(h.item.id) <= MaxId
        /\ Serve("POST", Null, body, NoUpdate, rd, h)

UpdateItem(item_id, body) ==
    LET rd == read_data(file, FALSE)
    IN  Serve("PUT", item_id, body, NoUpdate, rd,
              Handle(rd, update_item(rd.data, item_id, body)))

PatchItem(item_id, upd) ==
    LET rd == read_data(file, FALSE)
    IN  Serve("PATCH", item_id, NoItem, upd, rd,
              Handle(rd, patch_item(rd.data, item_id, upd)))

DeleteItem(item_id) ==
    LET rd == read_data(file, FALSE)
    IN  Serve("DELETE", item_id, NoItem, NoUpdate, rd,
              Handle(rd, delete_item(rd.data, item_id)))

SeqNext ==
    \/ GetItems
    \/ \E item_id \in PathIds : GetItem(item_id)
    \/ \E body \in Bodies : CreateItem(body)
    \/ \E item_id \in PathIds, body \in Bodies : UpdateItem(item_id, body)
    \/ \E item_id \in PathIds, upd \in FewPatchBodies : PatchItem(item_id, upd)
    \/ \E item_id \in PathIds : DeleteItem(item_id)

SeqSpec == Init /\ [][SeqNext]_vars

\* ------------------------------------------------ requests, interleaved
\* The HTTP runtime runs handlers on separate threads with nothing shared
\* but the file (no lock): a handler's read, its open-for-write (which
\* truncates) and its write are separate steps.  ioerr: this step's file
\* operation raises IOError.
ConcIds == {"1", "2"}
ConcPatch == PatchOf({"quantity"}, BodyB)
\* The body of request r's POST: consecutive requests post different items.
BodyOf(r) == IF r % 2 = 1 THEN BodyA ELSE BodyB

\* The changes of the file so far: every completed write truncated it and
\* wrote it, every write under way has truncated it.
Version == 2 * Len(wrote) + Cardinality({q \in Requests : req[q].pc = "dump"})

\* The handler up to its write: read_data, the work on the list, and the
\* response when nothing is written.
Receive(r, op, item_id, body, upd, h, ioerr) ==
    /\ req[r].pc = "new"
    /\ r > 1 => req[r - 1].pc # "new"
    /\ req' = [req EXCEPT ![r] =
                 Pending(IF h.write THEN "write" ELSE "done", op, item_id, body, upd, h,
                         IF ioerr THEN -1 ELSE Version)]
    /\ UNCHANGED <<file, wrote, hist>>

RecvGetItems(r, ioerr) ==
    LET rd == read_data(file, ioerr)
    IN  Receive(r, "GET_ALL", Null, NoItem, NoUpdate, Handle(rd, get_items(rd.data)), ioerr)

RecvGetItem(r, item_id, ioerr) ==
    LET rd == read_data(file, ioerr)
    IN  Receive(r, "GET", item_id, NoItem, NoUpdate, Handle(rd, get_item(rd.data, item_id)), ioerr)

RecvCreateItem(r, body, ioerr) ==
    LET rd == read_data(file, ioerr)
        h == Handle(rd, create_item(rd.data, body))
    IN  /\ h.status = 200 => IntOf(h.item.id) <= MaxId
        /\ Receive(r, "POST", Null, body, NoUpdate, h, ioerr)

RecvUpdateItem(r, item_id, body, ioerr) ==
    LET rd == read_data(file, ioerr)
    IN  Receive(r, "PUT", item_id, body, NoUpdate,
                Handle(rd, update_item(rd.data, item_id, body)), ioerr)

RecvPatchItem(r, item_id, upd, ioerr) ==
    LET rd == read_data(file, ioerr)
    IN  Receive(r, "PATCH", item_id, NoItem, upd,
                Handle(rd, patch_item(rd.data, item_id, upd)), ioerr)

RecvDeleteItem(r, item_id, ioerr) ==
    LET rd == read_data(file, ioerr)
    IN  Receive(r, "DELETE", item_id, NoItem, NoUpdate,
                Handle(rd, delete_item(rd.data, item_id)), ioerr)

\* A variant of OpenWrite: the IOError of open is not caught in write_data
\* and leaves the handler, so the request answers 500.
OpenWrite_raises(r, ioerr) ==
    /\ req[r].pc = "write"
    /\ file' = IF ioerr THEN file ELSE EmptyFile
    /\ req' = [req EXCEPT ![r].pc = IF ioerr THEN "done" ELSE "dump",
                          ![r].status = IF ioerr THEN 500 ELSE @,
                          ![r].item = IF ioerr THEN NoItem ELSE @]
    /\ UNCHANGED <<wrote, hist>>

\* A variant of OpenWrite: the file is opened under an exclusive lock, so
\* the open waits while another request is writing.
OpenWrite_locked(r, ioerr) ==
    /\ req[r].pc = "write"
    /\ \A q \in Requests : req[q].pc # "dump"
    /\ file' = IF ioerr THEN file ELSE EmptyFile
    /\ req' = [req EXCEPT ![r].pc = IF ioerr THEN "done" ELSE "dump"]
    /\ UNCHANGED <<wrote, hist>>

\* open(DATA_FILE, "w") of main.py 42: the file is truncated; when open
\* raises, write_data prints and returns, and the handler answers.
OpenWrite(r, ioerr) ==
    /\ req[r].pc = "write"
    /\ file' = IF ioerr THEN file ELSE EmptyFile
    /\ req' = [req EXCEPT ![r].pc = IF ioerr THEN "done" ELSE "dump"]
    /\ UNCHANGED <<wrote, hist>>

\* A variant of Dump: the bytes are appended to what the file holds.
Dump_append(r, torn) ==
    /\ req[r].pc = "dump"
    /\ torn => file.kind # "empty"
    /\ file' = IF torn THEN GarbageFile ELSE JsonFile(file.doc \o req[r].out)
    /\ req' = [req EXCEPT ![r].pc = "done"]
    /\ wrote' = Append(wrote, r)
    /\ UNCHANGED hist

\* json.dump and the close of main.py 43: the bytes go to the start of the
\* file.  Over a file another request wrote meanwhile they leave that
\* write's tail behind when it was longer (torn): no JSON then.
Dump(r, torn) ==
    /\ req[r].pc = "dump"
    /\ torn => file.kind # "empty"
    /\ file' = IF torn THEN GarbageFile ELSE write_data(file, req[r].out, FALSE)
    /\ req' = [req EXCEPT ![r].pc = "done"]
    /\ wrote' = Append(wrote, r)
    /\ UNCHANGED hist

Next ==
    \/ \E r \in Requests, e \in BOOLEAN : RecvGetItems(r, e)
    \/ \E r \in Requests, i \in ConcIds, e \in BOOLEAN : RecvGetItem(r, i, e)
    \/ \E r \in Requests, e \in BOOLEAN : RecvCreateItem(r, BodyOf(r), e)
    \/ \E r \in Requests, i \in ConcIds, e \in BOOLEAN : RecvUpdateItem(r, i, BodyB, e)
    \/ \E r \in Requests, i \in ConcIds, e \in BOOLEAN : RecvPatchItem(r, i, ConcPatch, e)
    \/ \E r \in Requests, i \in ConcIds, e \in BOOLEAN : RecvDeleteItem(r, i, e)
    \/ \E r \in Requests, e \in BOOLEAN : OpenWrite(r, e)
    \/ \E r \in Requests, t \in BOOLEAN : Dump(r, t)

ConcInitFiles ==
    {MissingFile, GarbageFile,
     JsonFile(<<Item("1", BodyA)>>),
     JsonFile(<<Item("1", BodyA), Item("2", BodyB)>>)}

ConcInit == Init /\ watch = "pairs" /\ file \in ConcInitFiles

Spec == ConcInit /\ [][Next]_vars

\* The interleaved service with every handler that has read scheduled
\* until it answers: the runtime's threads keep running, and a handler has
\* no loop and takes no lock between its read and its response.  The
\* service starts on a list of one item; truncated and torn files arise
\* from the writes.
FairInit == ConcInit /\ file = JsonFile(<<Item("1", BodyA)>>)

FairSpec ==
    /\ FairInit
    /\ [][Next]_vars
    /\ \A r \in Requests :
         /\ WF_vars(\E e \in BOOLEAN : OpenWrite(r, e))
         /\ WF_vars(\E t \in BOOLEAN : Dump(r, t))

\* PATCH requests alone, with every body.
PatchNext == \E item_id \in PathIds, upd \in PatchBodies : PatchItem(item_id, upd)

PatchSpec == Init /\ [][PatchNext]_vars

\* ------------------------------------------------------------------ claims
\* The ids of the objects in a file, and the items a handler reads from it.
IdsIn(f) == {f.doc[i].id : i \in 1..Len(f.doc)}
Readable(f) == ~read_data(f, FALSE).raised

\* C1: in sequential use, a GET /items/X served right after the POST that
\* returned id X answers 200 with the posted name, description, price and
\* quantity and with id X, whatever id the posted body carried.
C1_GetAfterPost ==
    (/\ prev.op = "POST" /\ prev.status = 200
     /\ last.op = "GET" /\ last.id = prev.item.id)
        => /\ last.status = 200
           /\ last.item.id = prev.item.id
           /\ \A f \in UpdateFields : last.item[f] = prev.body[f]

\* C1's case: the POST carried an id of its own, another than the one it
\* was assigned, and the GET that followed found the new item under the
\* assigned id.
C1_Witness ==
    /\ prev.op = "POST" /\ prev.status = 200
    /\ prev.body.id # Null /\ prev.body.id # prev.item.id
    /\ last.op = "GET" /\ last.id = prev.item.id /\ last.status = 200
    /\ last.item.id = prev.item.id /\ last.item.name = prev.body.name

\* C2: in sequential use, a GET /items/X served right after a DELETE
\* /items/X that answered 204 answers 404, and the file holds no object
\* with id X.
C2_GetAfterDelete ==
    (/\ prev.op = "DELETE" /\ prev.status = 204
     /\ last.op = "GET" /\ last.id = prev.id)
        => /\ last.status = 404
           /\ prev.id \notin IdsIn(file)

\* C2's case: a DELETE answered 204 and the GET of the same id followed,
\* with items of other ids still stored.
C2_Witness ==
    /\ prev.op = "DELETE" /\ prev.status = 204
    /\ last.op = "GET" /\ last.id = prev.id /\ last.status = 404
    /\ file.kind = "json" /\ file.doc # <<>>

\* C3: a PATCH /items/X on a store holding an item with id X leaves the
\* file as it was except for the first item with id X, whose fields named
\* in the body take the body's values; every other field, the id, every
\* other item and the order stay, and an empty body changes nothing.  It
\* answers 200 unless the body set a required field to null.
C3_PatchLaw ==
    (/\ last.op = "PATCH"
     /\ before.kind = "json" /\ Readable(before)
     /\ last.id \in IdsIn(before))
        => /\ last.status = IF \E f \in RequiredFields : last.upd[f] = Null
                            THEN 500 ELSE 200
           /\ file.kind = "json"
           /\ Len(file.doc) = Len(before.doc)
           /\ \A i \in 1..Len(before.doc) : \A f \in ItemFields :
                file.doc[i][f] =
                    IF /\ before.doc[i].id = last.id
                       /\ \A j \in 1..(i - 1) : before.doc[j].id # last.id
                       /\ f \in UpdateFields
                       /\ last.upd[f] # Unset
                    THEN last.upd[f]
                    ELSE before.doc[i][f]
           /\ (\A f \in UpdateFields : last.upd[f] = Unset) => file = before

\* C3's case: a PATCH that set two of the four fields, one of them to null,
\* changed the stored item.  (The two bodies below are the ones PatchBodies
\* holds with a null: a description and a name.)
C3_Witness ==
    /\ last.op = "PATCH" /\ last.status = 200
    /\ last.upd.description = Null
    /\ file # before
    /\ \E i \in 1..Len(file.doc) :
         file.doc[i].description = Null /\ before.doc[i].description # Null

\* C4: in sequential use, a PUT /items/X with body P served right after a
\* successful PUT /items/X with the same P leaves the file as the first PUT
\* left it and answers what the first answered: P with id X.
C4_PutTwice ==
    (/\ prev.op = "PUT" /\ prev.status = 200
     /\ last.op = "PUT" /\ last.id = prev.id /\ last.body = prev.body)
        => /\ last.status = 200
           /\ file = before
           /\ last.item = prev.item
           /\ last.item.id = last.id
           /\ \A f \in UpdateFields : last.item[f] = last.body[f]

\* C4's case: the same PUT twice, its body carrying another id than the path.
C4_Witness ==
    /\ prev.op = "PUT" /\ prev.status = 200
    /\ last.op = "PUT" /\ last.id = prev.id /\ last.body = prev.body
    /\ last.status = 200
    /\ last.body.id # Null /\ last.body.id # last.id

\* C5: the n-th of n successful POSTs served one after another, the first
\* of them on an empty store (no file, or an empty list), is assigned the
\* id that is the decimal text of n.
C5_IdsFromEmpty ==
    run > 0 => /\ last.op = "POST" /\ last.status = 200
               /\ last.item.id = DecStr[run]

\* C5's case: as many POSTs in a row from an empty store as the model
\* allows, the last with an id in its body.
C5_Witness == run = MaxId /\ last.item.id = StrOf(MaxId) /\ last.body.id # Null

\* C6 as claimed: in sequential use on a store that started empty (so every
\* stored id is numeric), a POST is assigned an id greater than the id of
\* every earlier POST.
C6_AboveEveryEarlierPost ==
    (fromEmpty /\ last.op = "POST" /\ last.status = 200)
        => IntOf(last.item.id) > maxPosted

\* C6 as amended: in sequential use a POST is assigned an id greater than
\* the id of every item stored when it is served.
C6_AboveEveryStoredId ==
    (last.op = "POST" /\ last.status = 200)
        => \A i \in 1..Len(read_data(before, FALSE).data) :
             IntOf(last.item.id) > IntOf(before.doc[i].id)

\* C6's case: a POST on a store of two items, after a DELETE has removed an
\* item an earlier POST created.
C6_Witness ==
    /\ last.op = "POST" /\ last.status = 200
    /\ Len(before.doc) = 2
    /\ maxPosted > 0
    /\ StrOf(maxPosted) \notin IdsIn(before)

\* C7: in sequential use of a service that started on an empty store, no
\* two items of the file have the same id.
C7_UniqueIds ==
    fromEmpty => \A i, j \in 1..Len(file.doc) :
                    file.doc[i].id = file.doc[j].id => i = j

\* C7's case: a store of two items that started empty, the latest request a
\* successful PUT whose body carried the other item's id.
C7_Witness ==
    /\ fromEmpty /\ Len(file.doc) = 2
    /\ last.op = "PUT" /\ last.status = 200
    /\ last.body.id \in IdsIn(file) /\ last.body.id # last.id

\* C8: two POSTs that read the same content of the file (neither had begun
\* its write when the other read) both answer 200 with the same id, and the
\* file never holds both created items: the later write replaces the whole
\* file.
BothCreated(r, q) ==
    /\ r # q
    /\ req[r].op = "POST" /\ req[r].status = 200
    /\ req[q].op = "POST" /\ req[q].status = 200
    /\ req[r].seen >= 0 /\ req[r].seen = req[q].seen

C8_SameIdOneLost ==
    \A r, q \in Requests :
        BothCreated(r, q)
            => /\ req[r].item.id = req[q].item.id
               /\ ~(\E i, j \in 1..Len(file.doc) :
                       i # j /\ file.doc[i] = req[r].item /\ file.doc[j] = req[q].item)
               /\ (/\ wrote # <<>> /\ wrote[Len(wrote)] = q /\ file.kind = "json")
                     => file.doc = req[q].out

\* C8's case: both POSTs have answered and written; the file holds the item
\* of the one that wrote last and not the other's.
C8_Witness ==
    \E r, q \in Requests :
        /\ BothCreated(r, q)
        /\ req[r].pc = "done" /\ req[q].pc = "done"
        /\ wrote = <<r, q>>
        /\ req[q].item \in SeqToSet(file.doc)
        /\ req[r].item \notin SeqToSet(file.doc)
        /\ Len(file.doc) > 1

\* C9 as claimed: GET, PUT, PATCH or DELETE of an id that no object of the
\* file has answers 404 and leaves the file as it was.
C9_NotFoundUntouched ==
    (/\ last.op \in {"GET", "PUT", "PATCH", "DELETE"}
     /\ before.kind = "json"
     /\ last.id \notin IdsIn(before))
        => last.status = 404 /\ file = before

\* C10 as claimed: whatever the file held when a request was served,
\* read_data raised nothing in it, and it returned the empty list unless
\* the file was a list of valid items (GET /items answers what it returned).
C10_ReadNeverRaises ==
    LET wellFormed ==
            before.kind = "json" /\ \A i \in 1..Len(before.doc) : ItemValid(before.doc[i])
    IN  last.op # "none"
            => /\ ~last.raised
               /\ (last.op = "GET_ALL" /\ ~wellFormed) => last.list = <<>>

\* C11: when the open of a write fails with an I/O error (the request goes
\* from its write straight to its response), the POST, PUT, PATCH or DELETE
\* answers what its handler computed, 200 with the item or 204, and the
\* file, and so what a later read returns, is what it was before.
C11_FailedWriteStillSuccess ==
    [][\A r \in Requests :
         (req[r].pc = "write" /\ req'[r].pc = "done")
            => /\ req'[r].op \in {"POST", "PUT", "PATCH", "DELETE"}
               /\ req'[r].status = IF req'[r].op = "DELETE" THEN 204 ELSE 200
               /\ req'[r].item =
                     IF req'[r].op = "DELETE" THEN NoItem
                     ELSE IF req'[r].op = "POST" THEN req'[r].out[Len(req'[r].out)]
                     ELSE req'[r].out[FirstIndex(req'[r].out, req'[r].id)]
               /\ file' = file
               /\ read_data(file', FALSE) = read_data(file, FALSE)]_vars

\* C11's case: a POST answered 200 with its item although its write failed
\* (it is in no completed write), and a GET /items answered the list the
\* service started with, without the item.
C11_Witness ==
    \E r, q \in Requests :
        /\ req[r].op = "POST" /\ req[r].pc = "done" /\ req[r].status = 200
        /\ wrote = <<>> /\ file = before /\ file.kind = "json"
        /\ req[q].op = "GET_ALL" /\ req[q].pc = "done" /\ req[q].status = 200
        /\ req[q].list = before.doc
        /\ req[r].item \notin SeqToSet(req[q].list)

\* C12: a GET /items served when data.json does not exist answers 200 with
\* the empty list, no exception leaves read_data, and the file still does
\* not exist afterwards.
C12_MissingFileBootstrap ==
    (last.op = "GET_ALL" /\ before.kind = "missing")
        => /\ last.status = 200
           /\ last.list = <<>>
           /\ ~last.raised
           /\ file = MissingFile

\* C12's case: a GET /items was served on a missing file.
C12_Witness ==
    /\ last.op = "GET_ALL" /\ before = MissingFile
    /\ last.status = 200 /\ file.kind = "missing"

\* C13: a PUT or a PATCH, whatever it answers, leaves the ids of the file
\* as they were, position by position; a PUT /items/X on a store that
\* holds an item with id X answers 200 and puts its body there with id X,
\* whatever id the body carried.
C13_IdsKept ==
    last.op \in {"PUT", "PATCH"}
        => /\ file.kind = before.kind
           /\ Len(file.doc) = Len(before.doc)
           /\ \A i \in 1..Len(before.doc) : file.doc[i].id = before.doc[i].id
           /\ (/\ last.op = "PUT" /\ before.kind = "json" /\ Readable(before)
               /\ last.id \in IdsIn(before))
                 => /\ last.status = 200
                    /\ \A f \in UpdateFields :
                         file.doc[FirstIndex(before.doc, last.id)][f] = last.body[f]
                    /\ file.doc[FirstIndex(before.doc, last.id)].id = last.id

\* C13's case: a PUT whose body carried the id of another stored item
\* replaced an item of a store of two.
C13_Witness ==
    /\ last.op = "PUT" /\ last.status = 200
    /\ last.body.id # Null /\ last.body.id # last.id
    /\ Len(before.doc) = 2 /\ file # before
    /\ last.body.id \in IdsIn(before)

\* C14: on a store that holds an item whose id is no decimal number, a
\* POST answers 500 and leaves the file as it was; GET /items answers the
\* whole list, and GET, PUT, PATCH and DELETE of an id answer as on any
\* store: 404 when no item has the id, else 200 (204 for DELETE), a
\* non-numeric id included.
C14_MalformedId ==
    (/\ last.op # "none" /\ before.kind = "json"
     /\ \E i \in 1..Len(before.doc) : ~IsNumeric(before.doc[i].id))
        => /\ last.op = "POST" => (last.status = 500 /\ file = before)
           /\ (last.op = "GET_ALL" /\ Readable(before))
                 => (last.status = 200 /\ last.list = before.doc)
           /\ (last.op \in {"GET", "PUT", "PATCH", "DELETE"} /\ Readable(before))
                 => last.status =
                      IF last.id \notin IdsIn(before) THEN 404
                      ELSE IF last.op = "DELETE" THEN 204 ELSE 200
           /\ (last.op = "GET" /\ Readable(before) /\ last.id \in IdsIn(before))
                 => last.item = before.doc[FirstIndex(before.doc, last.id)]

\* C14's case: a POST answered 500 on a store of two items, one id numeric
\* and one not, that an earlier request had changed.
C14_Witness ==
    /\ last.op = "POST" /\ last.status = 500 /\ ~last.raised
    /\ Len(before.doc) = 2 /\ file = before
    /\ "x" \in IdsIn(before) /\ "1" \in IdsIn(before)
    /\ before \notin InitFiles

\* The position in the file before the latest request of the i-th item
\* whose id is not the one the request named.
KeptAt(i) ==
    CHOOSE k \in 1..Len(before.doc) :
        /\ before.doc[k].id # last.id
        /\ Cardinality({j \in 1..k : before.doc[j].id # last.id}) = i

\* C15: in sequential use, a POST that answers 200 leaves the file with
\* the items it held, in their order, and the new item after them; a PUT or
\* PATCH /items/X that answers 200 changes no item but the first with id X
\* and keeps the length; a DELETE /items/X that answers 204 leaves the
\* items whose id is not X, all of them, in their order, and no other;
\* GET /items and GET /items/X leave the file as it was.
C15_WriteFrame ==
    /\ (last.op = "POST" /\ last.status = 200)
          => /\ file.kind = "json"
             /\ Len(file.doc) = Len(before.doc) + 1
             /\ \A i \in 1..Len(before.doc) : file.doc[i] = before.doc[i]
             /\ file.doc[Len(file.doc)] = last.item
    /\ (last.op \in {"PUT", "PATCH"} /\ last.status = 200)
          => /\ file.kind = "json"
             /\ Len(file.doc) = Len(before.doc)
             /\ \A i \in 1..Len(before.doc) :
                  (before.doc[i].id # last.id
                      \/ \E j \in 1..(i - 1) : before.doc[j].id = last.id)
                    => file.doc[i] = before.doc[i]
             /\ file.doc[FirstIndex(before.doc, last.id)] = last.item
    /\ (last.op = "DELETE" /\ last.status = 204)
          => /\ file.kind = "json"
             /\ last.id \notin IdsIn(file)
             /\ Len(file.doc) =
                  Cardinality({j \in 1..Len(before.doc) : before.doc[j].id # last.id})
             /\ \A i \in 1..Len(file.doc) : file.doc[i] = before.doc[KeptAt(i)]
    /\ last.op \in {"GET_ALL", "GET"} => file = before

\* C15's case: a DELETE removed the two items of one id from a store of
\* three and left the third.
C15_Witness ==
    /\ last.op = "DELETE" /\ last.status = 204
    /\ Len(before.doc) = 3 /\ Len(file.doc) = 1
    /\ before.doc[1].id = last.id /\ before.doc[2].id = last.id

\* C16: a GET that reads while a write is under way and the file holds
\* bytes that do not parse (truncated and not written yet, or torn) gets
\* the empty list from read_data: GET /items answers 200 with the empty
\* list and GET /items/X answers 404, whatever the store held.
C16_ReadDuringWrite ==
    [][\A r \in Requests :
         (/\ req[r].pc = "new" /\ req'[r].op \in {"GET_ALL", "GET"}
          /\ \E w \in Requests : req[w].pc = "dump"
          /\ file.kind \in {"empty", "garbage"})
            => /\ req'[r].pc = "done"
               /\ req'[r].list = <<>>
               /\ req'[r].status = IF req'[r].op = "GET" THEN 404 ELSE 200]_vars

\* C16's case: a GET /items/X that read between the truncation and the
\* write of the only write there was answered 404, and the file held an
\* item with id X before that write and holds one after it.
C16_Witness ==
    \E r, w \in Requests :
        /\ req[r].op = "GET" /\ req[r].pc = "done" /\ req[r].status = 404
        /\ req[r].seen = 1
        /\ wrote = <<w>> /\ req[w].pc = "done"
        /\ before.kind = "json" /\ req[r].id \in IdsIn(before)
        /\ file.kind = "json" /\ req[r].id \in IdsIn(file)

\* C17: a POST whose read yields the empty fallback (the read raised
\* IOError, or the file held bytes that do not parse: corrupt, truncated
\* or torn) answers 200 with id "1" and hands write_data the list of that
\* one item; and every write that lands intact leaves in the file the
\* writer's list and nothing of what the file held.
C17_PostOnFallbackWipes ==
    [][\A r \in Requests :
         /\ (/\ req[r].pc = "new" /\ req'[r].op = "POST"
              /\ (req'[r].seen = -1 \/ file.kind \in {"empty", "garbage"}))
               => /\ req'[r].pc = "write"
                  /\ req'[r].status = 200
                  /\ req'[r].item.id = "1"
                  /\ \A f \in UpdateFields : req'[r].item[f] = req'[r].body[f]
                  /\ req'[r].out = <<req'[r].item>>
         /\ (req[r].pc = "dump" /\ req'[r].pc = "done" /\ file'.kind = "json")
               => /\ file'.doc = req[r].out
                  /\ req'[r].status = req[r].status]_vars

\* C17's case: the service started on a list of two items, a POST whose
\* read raised IOError answered 200 with id "1", and after its write the
\* file holds that item alone.
C17_Witness ==
    \E r \in Requests :
        /\ req[r].op = "POST" /\ req[r].pc = "done" /\ req[r].status = 200
        /\ req[r].seen = -1 /\ req[r].item.id = "1"
        /\ before.kind = "json" /\ Len(before.doc) = 2
        /\ wrote = <<r>>
        /\ file = JsonFile(<<req[r].item>>)

\* Request r, a PUT or PATCH that answered 200, read the file before any
\* write had begun; request q, a PUT, PATCH or DELETE of another id that
\* the file held then, completed its write; and the latest completed write
\* is r's, after q's.
WroteOver(r, q) ==
    /\ r # q
    /\ req[r].op \in {"PUT", "PATCH"} /\ req[r].status = 200 /\ req[r].seen = 0
    /\ req[q].op \in {"PUT", "PATCH", "DELETE"} /\ req[q].status \in {200, 204}
    /\ req[q].id # req[r].id
    /\ req[q].id \in IdsIn(before)
    /\ wrote # <<>> /\ wrote[Len(wrote)] = r
    /\ \E i \in 1..(Len(wrote) - 1) : wrote[i] = q

\* C18: when a PUT or PATCH of id Y read the file before a DELETE (or PUT
\* or PATCH) of another id X wrote, and wrote after it, the file it leaves
\* is its own list, as long as the list the service started with, and every
\* item with id X is in it as it was when the service started, although
\* the other request answered 204 (or 200).
C18_LostUpdate ==
    \A r, q \in Requests :
        (WroteOver(r, q) /\ file.kind = "json")
            => /\ file.doc = req[r].out
               /\ Len(file.doc) = Len(before.doc)
               /\ req[q].id \in IdsIn(file)
               /\ \A i \in 1..Len(before.doc) :
                    before.doc[i].id = req[q].id => file.doc[i] = before.doc[i]

\* C18's case: a DELETE /items/2 answered 204 and wrote, then a PATCH of
\* item 1 that had read the two items wrote, and item 2 is in the file.
C18_Witness ==
    \E r, q \in Requests :
        /\ WroteOver(r, q)
        /\ req[r].op = "PATCH" /\ req[r].id = "1"
        /\ req[q].op = "DELETE" /\ req[q].id = "2" /\ req[q].status = 204
        /\ req[r].pc = "done" /\ req[q].pc = "done"
        /\ wrote = <<q, r>>
        /\ file.kind = "json" /\ "2" \in IdsIn(file)

\* No step of a request waits for another request: the open of a write
\* (failing or not) and the write itself can be taken whenever the request
\* has reached them, and the next request to arrive can be served,
\* whatever the position of every other request.
NeverBlocked ==
    \A r \in Requests :
        /\ req[r].pc = "write"
              => (ENABLED OpenWrite(r, FALSE)) /\ (ENABLED OpenWrite(r, TRUE))
        /\ req[r].pc = "dump" => ENABLED Dump(r, FALSE)
        /\ (req[r].pc = "new" /\ \A q \in 1..(r - 1) : req[q].pc # "new")
              => ENABLED RecvGetItems(r, FALSE)

\* C19: with every handler scheduled until it answers, every request that
\* has read the file eventually answers (200, 204, 404 or 500), whatever
\* the other requests do meanwhile, and no step of a request is ever
\* disabled by the position of another request.
C19_EveryRequestAnswers ==
    /\ \A r \in Requests : (req[r].pc \in {"write", "dump"}) ~> (req[r].pc = "done")
    /\ []NeverBlocked

\* C19's case: two writes ran at the same time (the request that arrived
\* second completed its write first, while the first had truncated the
\* file already) and both requests have answered.
C19_Witness ==
    /\ MaxRequests >= 2
    /\ req[1].pc = "done" /\ req[2].pc = "done"
    /\ req[1].seen = 0 /\ req[2].seen = 1
    /\ 1 \in SeqToSet(wrote) /\ 2 \in SeqToSet(wrote)
    /\ \E i, j \in 1..Len(wrote) : i < j /\ wrote[i] = 2 /\ wrote[j] = 1

====
